---- MODULE Spec2Model ----
(***************************************************************************)
(* Model of the two tool servers of needle-mcp:                            *)
(*   src/src/needle_mcp/server.py      rate_limit, call_tool               *)
(*   src/mcp_server_needle/server.py   NeedleMCPServer.invoke_tool         *)
(* Python values are tagged records; dicts are sequences of <<key, value>> *)
(* pairs in insertion order, lists are sequences.                          *)
(***************************************************************************)
EXTENDS Integers, Sequences, FiniteSets, TLC

(* ------------------------------ bounds --------------------------------- *)
\* clock ticks per second
Resolution == 2
\* last clock value
MaxTime == 7
\* invocations that enter call_tool in one behaviour
MaxInvocations == 13
\* concurrent callers of call_tool
NumCallers == 3

(* ------------------- rate_limit(calls=10, period=1.0) ------------------ *)
calls == 10
period == 1 * Resolution

(* ------------------------- Python values ------------------------------- *)
Str(s) == [type |-> "str", s |-> s]
Float(s) == [type |-> "float", s |-> s]
PyInt(s) == [type |-> "int", s |-> s]
DateTime(s) == [type |-> "datetime", s |-> s]
None == [type |-> "NoneType", s |-> "None"]
Dict(pairs) == [type |-> "dict", pairs |-> pairs]
List(elems) == [type |-> "list", elems |-> elems]
Object(cls, attrs) == [type |-> "object", cls |-> cls, attrs |-> attrs]

\* k in d  /  d[k]  /  hasattr(o, a)  /  o.a
HasKey(pairs, k) == \E i \in 1..Len(pairs) : pairs[i][1] = k
GetKey(pairs, k) == pairs[CHOOSE i \in 1..Len(pairs) : pairs[i][1] = k][2]
HasAttr(o, a) == o.type = "object" /\ HasKey(o.attrs, a)
GetAttr(o, a) == GetKey(o.attrs, a)

\* bool(v) of a scalar
Truthy(v) ==
    /\ v.type # "NoneType"
    /\ ~(v.type = "str" /\ v.s = "")
    /\ ~(v.type \in {"int", "float"} /\ v.s = "0")

\* str(v)
PyStr(v) ==
    CASE v.type = "str" -> v
      [] v.type \in {"int", "float", "datetime", "NoneType"} -> Str(v.s)
      [] v.type = "object" -> Str(v.cls)
      [] OTHER -> Str(v.type)

\* an exception instance; str(e) is its message
Exc(cls, msg) == [exc |-> cls, msg |-> msg]

(* ------------------------ urllib.parse.urlparse ------------------------ *)
\* the characters of the url literals used as inputs
Chars(s) ==
    CASE s = "https://example.com/doc.pdf" ->
           <<"h","t","t","p","s",":","/","/","e","x","a","m","p","l","e",
             ".","c","o","m","/","d","o","c",".","p","d","f">>
      [] s = "not-a-url" -> <<"n","o","t","-","a","-","u","r","l">>
      [] s = "/docs/doc.pdf" -> <<"/","d","o","c","s","/","d","o","c",".","p","d","f">>
      [] s = "//example.com/doc.pdf" ->
           <<"/","/","e","x","a","m","p","l","e",".","c","o","m","/","d","o","c",".","p","d","f">>
      [] s = "https:doc.pdf" -> <<"h","t","t","p","s",":","d","o","c",".","p","d","f">>
      [] s = "" -> <<>>
      [] OTHER -> <<"?">>

Letters == {"a","c","d","e","f","h","l","m","n","o","p","r","s","t","u","x"}
SchemeChars == Letters \cup {"+", "-", "."}

\* index of the first element of cs in set S, 0 when there is none
RECURSIVE Find(_, _, _)
Find(cs, S, i) ==
    IF i > Len(cs) THEN 0
    ELSE IF cs[i] \in S THEN i ELSE Find(cs, S, i + 1)

\* urlsplit: scheme is the text before the first ':' when it starts with a
\* letter and consists of scheme characters; netloc follows a leading '//'
\* of the remainder and ends at the first '/', '?' or '#'.
urlparse(cs) ==
    LET i == Find(cs, {":"}, 1)
        hasScheme == /\ i > 1
                     /\ cs[1] \in Letters
                     /\ \A j \in 1..(i - 1) : cs[j] \in SchemeChars
        scheme == IF hasScheme THEN SubSeq(cs, 1, i - 1) ELSE <<>>
        rest == IF hasScheme THEN SubSeq(cs, i + 1, Len(cs)) ELSE cs
        hasNetloc == Len(rest) >= 2 /\ rest[1] = "/" /\ rest[2] = "/"
        after == IF hasNetloc THEN SubSeq(rest, 3, Len(rest)) ELSE <<>>
        e == Find(after, {"/", "?", "#"}, 1)
        netloc == IF ~hasNetloc THEN <<>>
                  ELSE IF e = 0 THEN after ELSE SubSeq(after, 1, e - 1)
    IN [scheme |-> scheme, netloc |-> netloc]

(* ----------------------- validation helpers ---------------------------- *)
\* bool(collection_id and isinstance(collection_id, str))
validate_collection_id(collection_id) ==
    Truthy(collection_id) /\ collection_id.type = "str"

\* all([result.scheme, result.netloc]); a value urlparse cannot take
\* raises inside the try and yields False
validate_url(url) ==
    IF url.type # "str" THEN FALSE
    ELSE LET result == urlparse(Chars(url.s))
         IN result.scheme # <<>> /\ result.netloc # <<>>

(* --------------------------- json.dumps -------------------------------- *)
JsonTypes == {"str", "int", "float", "NoneType"}

\* json.dumps(result, indent=2, default=str): containers are kept, JSON
\* scalars are kept, anything else goes through default=str
RECURSIVE dumps(_)
dumps(v) ==
    CASE v.type = "dict" ->
           Dict([i \in 1..Len(v.pairs) |-> <<v.pairs[i][1], dumps(v.pairs[i][2])>>])
      [] v.type = "list" ->
           List([i \in 1..Len(v.elems) |-> dumps(v.elems[i])])
      [] v.type \in JsonTypes -> v
      [] OTHER -> PyStr(v)

(* ----------------------- the remote collaborator ----------------------- *)
\* what one remote operation does when it is called: return a value or
\* raise; a call appends one entry to the log of remote calls
NoExc == Exc("none", <<>>)
Returned(result, remote) ==
    [how |-> "ok", result |-> result, exc |-> NoExc, remote |-> remote]
Raised(e, remote) ==
    [how |-> "raised", result |-> None, exc |-> e, remote |-> remote]
RemoteCall(op, args, collab) ==
    LET remote == <<[op |-> op, args |-> args]>>
    IN IF collab.does = "raise" THEN Raised(collab.error, remote)
       ELSE Returned(collab.result, remote)

\* [ {key: conv(x.attr), ...} for x in r.result ] evaluated after the call r;
\* fields is a sequence of <<key, attr, stringify>>
Comprehension(r, fields) ==
    LET v == r.result
        n == Len(fields)
    IN IF r.how = "raised" THEN [how |-> "raised", result |-> None, exc |-> r.exc]
       ELSE IF v.type # "list"
       THEN [how |-> "raised", result |-> None,
             exc |-> Exc("TypeError", <<"object is not iterable">>)]
       ELSE IF \E i \in 1..Len(v.elems) : \E f \in 1..n :
                   ~HasAttr(v.elems[i], fields[f][2])
       THEN [how |-> "raised", result |-> None,
             exc |-> Exc("AttributeError", <<"object has no attribute">>)]
       ELSE [how |-> "ok", exc |-> NoExc,
             result |-> List([i \in 1..Len(v.elems) |->
                 Dict([f \in 1..n |->
                     <<fields[f][1],
                       IF fields[f][3] THEN PyStr(GetAttr(v.elems[i], fields[f][2]))
                       ELSE GetAttr(v.elems[i], fields[f][2])>>])])]

\* {key: conv(r.result.attr), ...} evaluated after the call r
Attributes(r, fields) ==
    LET v == r.result
        n == Len(fields)
    IN IF r.how = "raised" THEN [how |-> "raised", result |-> None, exc |-> r.exc]
       ELSE IF \E f \in 1..n : ~HasAttr(v, fields[f][2])
       THEN [how |-> "raised", result |-> None,
             exc |-> Exc("AttributeError", <<"object has no attribute">>)]
       ELSE [how |-> "ok", exc |-> NoExc,
             result |-> Dict([f \in 1..n |->
                     <<fields[f][1],
                       IF fields[f][3] THEN PyStr(GetAttr(v, fields[f][2]))
                       ELSE GetAttr(v, fields[f][2])>>])]

\* files[0].id evaluated after the call r
FirstId(r) ==
    LET v == r.result
    IN IF r.how = "raised" THEN [how |-> "raised", result |-> None, exc |-> r.exc]
       ELSE IF v.type # "list"
       THEN [how |-> "raised", result |-> None,
             exc |-> Exc("TypeError", <<"object is not subscriptable">>)]
       ELSE IF Len(v.elems) = 0
       THEN [how |-> "raised", result |-> None,
             exc |-> Exc("IndexError", <<"list index out of range">>)]
       ELSE IF ~HasAttr(v.elems[1], "id")
       THEN [how |-> "raised", result |-> None,
             exc |-> Exc("AttributeError", <<"object has no attribute">>)]
       ELSE [how |-> "ok", exc |-> NoExc, result |-> GetAttr(v.elems[1], "id")]

\* wrap(k, p): the body result {k: p.result}, keeping the log of the call r
Wrap(k, p, r) ==
    IF p.how = "raised" THEN Raised(p.exc, r.remote)
    ELSE Returned(Dict(<<<<k, p.result>>>>), r.remote)

IsDict(arguments) == arguments.type = "dict"
HasAll(arguments, keys) == \A k \in keys : HasKey(arguments.pairs, k)
FileToAdd(name, url) == Object("FileToAdd", <<<<"name", name>>, <<"url", url>>>>)

(* ------------- src/src/needle_mcp/server.py : call_tool ---------------- *)
ToolNames == {"list_collections", "create_collection", "get_collection_details",
              "get_collection_stats", "list_collection_files", "add_file", "search"}

\* list_tools / get_tools: inputSchema["required"] of each declared tool
required(name) ==
    CASE name = "list_collections" -> <<>>
      [] name = "create_collection" -> <<"name">>
      [] name = "get_collection_details" -> <<"collection_id">>
      [] name = "get_collection_stats" -> <<"collection_id">>
      [] name = "list_collection_files" -> <<"collection_id">>
      [] name = "add_file" -> <<"collection_id", "name", "url">>
      [] name = "search" -> <<"collection_id", "query">>
      [] OTHER -> <<>>

\* list_tools whose search declares collection_id only
list_tools_QueryOptional ==
    << [name |-> "list_collections", required |-> <<>>],
       [name |-> "create_collection", required |-> <<"name">>],
       [name |-> "get_collection_details", required |-> <<"collection_id">>],
       [name |-> "get_collection_stats", required |-> <<"collection_id">>],
       [name |-> "list_collection_files", required |-> <<"collection_id">>],
       [name |-> "add_file", required |-> <<"collection_id", "name", "url">>],
       [name |-> "search", required |-> <<"collection_id">>] >>

\* list_tools: name and inputSchema["required"] of each Tool it returns
list_tools ==
    << [name |-> "list_collections", required |-> <<>>],
       [name |-> "create_collection", required |-> <<"name">>],
       [name |-> "get_collection_details", required |-> <<"collection_id">>],
       [name |-> "get_collection_stats", required |-> <<"collection_id">>],
       [name |-> "list_collection_files", required |-> <<"collection_id">>],
       [name |-> "add_file", required |-> <<"collection_id", "name", "url">>],
       [name |-> "search", required |-> <<"collection_id", "query">>] >>

\* NeedleMCPServer.get_tools: name and inputSchema["required"] of each Tool
get_tools ==
    << [name |-> "list_collections", required |-> <<>>],
       [name |-> "create_collection", required |-> <<"name">>],
       [name |-> "get_collection_details", required |-> <<"collection_id">>],
       [name |-> "get_collection_stats", required |-> <<"collection_id">>],
       [name |-> "list_collection_files", required |-> <<"collection_id">>],
       [name |-> "add_file", required |-> <<"collection_id", "name", "url">>],
       [name |-> "search", required |-> <<"collection_id", "query">>] >>

MissingParam(k) == Exc("ValueError", <<"Missing required parameter: '", k, "'">>)
MissingParams == Exc("ValueError", <<"Missing required parameters">>)

\* the body of the try block: the if/elif chain up to the value of result
tool_result(name, arguments, collab) ==
    CASE name = "list_collections" ->
           LET r == RemoteCall("collections.list", <<>>, collab)
           IN Wrap("collections",
                   Comprehension(r, << <<"id", "id", FALSE>>, <<"name", "name", FALSE>>,
                                       <<"created_at", "created_at", TRUE>> >>), r)
      [] name = "create_collection" ->
           IF ~IsDict(arguments) \/ ~HasKey(arguments.pairs, "name")
           THEN Raised(MissingParam("name"), <<>>)
           ELSE LET r == RemoteCall("collections.create",
                                    <<<<"name", GetKey(arguments.pairs, "name")>>>>, collab)
                IN Wrap("collection_id",
                        IF r.how = "raised" THEN r
                        ELSE IF ~HasAttr(r.result, "id")
                        THEN Raised(Exc("AttributeError", <<"object has no attribute">>), <<>>)
                        ELSE Returned(GetAttr(r.result, "id"), <<>>), r)
      [] name = "get_collection_details" ->
           IF ~IsDict(arguments) \/ ~HasKey(arguments.pairs, "collection_id")
           THEN Raised(MissingParam("collection_id"), <<>>)
           ELSE LET r == RemoteCall("collections.get",
                                    <<<<"collection_id", GetKey(arguments.pairs, "collection_id")>>>>,
                                    collab)
                IN Wrap("collection",
                        Attributes(r, << <<"id", "id", FALSE>>, <<"name", "name", FALSE>>,
                                         <<"created_at", "created_at", TRUE>> >>), r)
      [] name = "get_collection_stats" ->
           IF ~IsDict(arguments) \/ ~HasKey(arguments.pairs, "collection_id")
           THEN Raised(MissingParam("collection_id"), <<>>)
           ELSE LET r == RemoteCall("collections.stats",
                                    <<<<"collection_id", GetKey(arguments.pairs, "collection_id")>>>>,
                                    collab)
                IN Wrap("stats", r, r)
      [] name = "list_collection_files" ->
           IF ~IsDict(arguments) \/ ~HasKey(arguments.pairs, "collection_id")
           THEN Raised(MissingParam("collection_id"), <<>>)
           ELSE LET r == RemoteCall("collections.files.list",
                                    <<<<"collection_id", GetKey(arguments.pairs, "collection_id")>>>>,
                                    collab)
                IN Wrap("files",
                        Comprehension(r, << <<"id", "id", FALSE>>, <<"name", "name", FALSE>>,
                                            <<"status", "status", FALSE>> >>), r)
      [] name = "add_file" ->
           IF ~IsDict(arguments) \/ ~HasAll(arguments, {"collection_id", "name", "url"})
           THEN Raised(MissingParams, <<>>)
           ELSE IF ~validate_collection_id(GetKey(arguments.pairs, "collection_id"))
           THEN Raised(Exc("ValueError", <<"Invalid collection ID format">>), <<>>)
           ELSE IF ~validate_url(GetKey(arguments.pairs, "url"))
           THEN Raised(Exc("ValueError", <<"Invalid URL format">>), <<>>)
           ELSE LET r == RemoteCall("collections.files.add",
                           << <<"collection_id", GetKey(arguments.pairs, "collection_id")>>,
                              <<"files", List(<<FileToAdd(GetKey(arguments.pairs, "name"),
                                                          GetKey(arguments.pairs, "url"))>>)>> >>,
                           collab)
                IN Wrap("file_id", FirstId(r), r)
      [] name = "search" ->
           IF ~IsDict(arguments) \/ ~HasAll(arguments, {"collection_id", "query"})
           THEN Raised(MissingParams, <<>>)
           ELSE LET r == RemoteCall("collections.search",
                           << <<"collection_id", GetKey(arguments.pairs, "collection_id")>>,
                              <<"text", GetKey(arguments.pairs, "query")>> >>,
                           collab)
                    p == Comprehension(r, << <<"content", "content", FALSE>>,
                                             <<"score", "score", FALSE>> >>)
                IN IF p.how = "raised" THEN Raised(p.exc, r.remote)
                   ELSE Returned(p.result, r.remote)
      [] OTHER -> Raised(Exc("ValueError", <<"Unknown tool: ", name>>), <<>>)

TextContent(type, text) == [type |-> type, text |-> text]

\* call_tool without its decorators: the try block and the two except
\* clauses; every path returns a one-element list of TextContent
call_tool(name, arguments, collab) ==
    LET r == tool_result(name, arguments, collab)
    IN IF r.how = "ok"
       THEN [how |-> "returned", remote |-> r.remote, exc |-> NoExc,
             value |-> TextContent("text", dumps(r.result))]
       ELSE IF r.exc.exc = "NeedleError"
       THEN [how |-> "returned", remote |-> r.remote, exc |-> NoExc,
             value |-> TextContent("error", <<"Needle API error: ">> \o r.exc.msg)]
       ELSE [how |-> "returned", remote |-> r.remote, exc |-> NoExc,
             value |-> TextContent("error", <<"Error executing ", name, ": ">> \o r.exc.msg)]

(* -------- src/mcp_server_needle/server.py : NeedleMCPServer ------------ *)
\* parameters[k]: the exception of the first failing subscript among keys
\* (in evaluation order), or NoExc
Subscripts(parameters, keys) ==
    IF ~IsDict(parameters)
    THEN Exc("TypeError", <<"object is not subscriptable">>)
    ELSE IF \E i \in 1..Len(keys) : ~HasKey(parameters.pairs, keys[i])
    THEN LET i == CHOOSE j \in 1..Len(keys) :
                      /\ ~HasKey(parameters.pairs, keys[j])
                      /\ \A h \in 1..(j - 1) : HasKey(parameters.pairs, keys[h])
         IN Exc("KeyError", <<"'", keys[i], "'">>)
    ELSE NoExc

_list_collections(collab) ==
    LET r == RemoteCall("collections.list", <<>>, collab)
    IN Wrap("collections",
            Comprehension(r, << <<"id", "id", FALSE>>, <<"name", "name", FALSE>> >>), r)

_create_collection(parameters, collab) ==
    LET e == Subscripts(parameters, <<"name">>)
    IN IF e # NoExc THEN Raised(e, <<>>)
       ELSE LET r == RemoteCall("collections.create",
                                <<<<"name", GetKey(parameters.pairs, "name")>>>>, collab)
            IN Wrap("collection_id",
                    IF r.how = "raised" THEN r
                    ELSE IF ~HasAttr(r.result, "id")
                    THEN Raised(Exc("AttributeError", <<"object has no attribute">>), <<>>)
                    ELSE Returned(GetAttr(r.result, "id"), <<>>), r)

_get_collection_details(parameters, collab) ==
    LET e == Subscripts(parameters, <<"collection_id">>)
    IN IF e # NoExc THEN Raised(e, <<>>)
       ELSE LET r == RemoteCall("collections.get",
                        <<<<"collection_id", GetKey(parameters.pairs, "collection_id")>>>>,
                        collab)
            IN Wrap("collection", r, r)

_get_collection_stats(parameters, collab) ==
    LET e == Subscripts(parameters, <<"collection_id">>)
    IN IF e # NoExc THEN Raised(e, <<>>)
       ELSE LET r == RemoteCall("collections.stats",
                        <<<<"collection_id", GetKey(parameters.pairs, "collection_id")>>>>,
                        collab)
            IN Wrap("stats", r, r)

_list_collection_files(parameters, collab) ==
    LET e == Subscripts(parameters, <<"collection_id">>)
    IN IF e # NoExc THEN Raised(e, <<>>)
       ELSE LET r == RemoteCall("collections.files.list",
                        <<<<"collection_id", GetKey(parameters.pairs, "collection_id")>>>>,
                        collab)
            IN Wrap("files",
                    Comprehension(r, << <<"id", "id", FALSE>>, <<"name", "name", FALSE>> >>), r)

_add_file(parameters, collab) ==
    LET e == Subscripts(parameters, <<"collection_id", "name", "url">>)
    IN IF e # NoExc THEN Raised(e, <<>>)
       ELSE LET r == RemoteCall("collections.files.add",
                        << <<"collection_id", GetKey(parameters.pairs, "collection_id")>>,
                           <<"files", List(<<FileToAdd(GetKey(parameters.pairs, "name"),
                                                       GetKey(parameters.pairs, "url"))>>)>> >>,
                        collab)
            IN Wrap("file_id", FirstId(r), r)

_search(parameters, collab) ==
    LET e == Subscripts(parameters, <<"collection_id", "query">>)
    IN IF e # NoExc THEN Raised(e, <<>>)
       ELSE LET r == RemoteCall("collections.search",
                        << <<"collection_id", GetKey(parameters.pairs, "collection_id")>>,
                           <<"text", GetKey(parameters.pairs, "query")>> >>,
                        collab)
                p == Comprehension(r, << <<"content", "content", FALSE>>,
                                         <<"score", "score", FALSE>> >>)
            IN IF p.how = "raised" THEN Raised(p.exc, r.remote)
               ELSE Returned(p.result, r.remote)

\* invoke_tool: route by name; both except clauses log and re-raise, so an
\* exception leaves invoke_tool and a result is returned as it is
invoke_tool(tool_name, parameters, collab) ==
    LET r == CASE tool_name = "list_collections" -> _list_collections(collab)
               [] tool_name = "create_collection" -> _create_collection(parameters, collab)
               [] tool_name = "get_collection_details" ->
                      _get_collection_details(parameters, collab)
               [] tool_name = "get_collection_stats" ->
                      _get_collection_stats(parameters, collab)
               [] tool_name = "list_collection_files" ->
                      _list_collection_files(parameters, collab)
               [] tool_name = "add_file" -> _add_file(parameters, collab)
               [] tool_name = "search" -> _search(parameters, collab)
               [] OTHER -> Raised(Exc("ValueError", <<"Unknown tool: ", tool_name>>), <<>>)
    IN IF r.how = "ok"
       THEN [how |-> "returned", remote |-> r.remote, exc |-> NoExc, value |-> r.result]
       ELSE [how |-> "raised", remote |-> r.remote, exc |-> r.exc, value |-> None]

(* ------------------------------ inputs --------------------------------- *)
Absent == [type |-> "absent", s |-> "absent"]
\* a dict of the present values among collection_id, name, url, query
Payload(cid, nm, url, q) ==
    Dict((IF cid = Absent THEN <<>> ELSE <<<<"collection_id", cid>>>>)
         \o (IF nm = Absent THEN <<>> ELSE <<<<"name", nm>>>>)
         \o (IF url = Absent THEN <<>> ELSE <<<<"url", url>>>>)
         \o (IF q = Absent THEN <<>> ELSE <<<<"query", q>>>>))

CollectionIds == {Absent, Str("c1"), Str(""), PyInt("7")}
Names == {Absent, Str("doc")}
Urls == {Absent, Str("https://example.com/doc.pdf"), Str("not-a-url"),
         Str("/docs/doc.pdf"), Str("//example.com/doc.pdf"), Str("https:doc.pdf")}
Queries == {Absent, Str("foo")}

\* the argument payloads tried with each tool name; None is a payload
\* that is not a mapping
ArgumentsOf(name) ==
    {None} \cup
    CASE name = "list_collections" -> {Payload(Absent, Absent, Absent, Absent)}
      [] name = "create_collection" ->
           {Payload(cid, nm, Absent, Absent) : cid \in {Absent, Str("c1")}, nm \in Names}
      [] name \in {"get_collection_details", "get_collection_stats",
                   "list_collection_files"} ->
           {Payload(cid, nm, Absent, Absent) : cid \in CollectionIds, nm \in {Absent}}
      [] name = "add_file" ->
           {Payload(cid, nm, url, Absent) : cid \in CollectionIds, nm \in Names, url \in Urls}
      [] name = "search" ->
           {Payload(cid, Absent, Absent, q) : cid \in CollectionIds, q \in Queries}
      [] OTHER ->
           {Payload(cid, Absent, Absent, Absent) : cid \in {Absent, Str("c1")}}

AllNames == ToolNames \cup {"unknown_tool"}
Requests == UNION {{[name |-> n, arguments |-> a] : a \in ArgumentsOf(n)} : n \in AllNames}

\* results of the collaborator
Collection(id) ==
    Object("Collection", << <<"id", Str(id)>>, <<"name", Str("docs")>>,
                            <<"created_at", DateTime("2024-01-01 00:00:00")>> >>)
File(id) ==
    Object("File", << <<"id", Str(id)>>, <<"name", Str("doc")>>,
                      <<"status", Str("indexed")>> >>)
Match(content, score) ==
    Object("Match", << <<"content", Str(content)>>, <<"score", Float(score)>> >>)
Stats == Dict(<< <<"chunks_count", PyInt("3")>>, <<"characters", PyInt("120")>> >>)
Bare == Object("object", <<>>)

Return(result, wf) ==
    [does |-> "return", result |-> result, error |-> NoExc, wellformed |-> wf]
Raise(e) == [does |-> "raise", result |-> None, error |-> e, wellformed |-> FALSE]

\* well-formed results of the remote operation behind each tool
ResultsOf(name) ==
    CASE name = "list_collections" ->
           {List(<<>>), List(<<Collection("c1")>>), List(<<Collection("c1"), Collection("c2")>>)}
      [] name \in {"create_collection", "get_collection_details"} -> {Collection("c1")}
      [] name = "get_collection_stats" -> {Stats}
      [] name = "list_collection_files" ->
           {List(<<>>), List(<<File("f1")>>), List(<<File("f1"), File("f2")>>)}
      [] name = "add_file" ->
           {List(<<>>), List(<<File("f1")>>), List(<<File("f1"), File("f2")>>)}
      [] name = "search" ->
           {List(<<>>), List(<<Match("hello", "0.9")>>),
            List(<<Match("hello", "0.9"), Match("world", "0.5")>>)}
      [] OTHER -> {None}

\* the behaviours of the collaborator: a well-formed result, a result of
\* the wrong shape, a remote-API fault, any other fault
Collabs(name) ==
    {Return(v, TRUE) : v \in ResultsOf(name)}
    \cup {Return(None, FALSE), Return(List(<<Bare>>), FALSE)}
    \cup {Raise(Exc("NeedleError", <<"collection not found">>)),
          Raise(Exc("ConnectionError", <<"connection refused">>))}

(* ------------------------------ state ---------------------------------- *)
VARIABLES
    input,        \* the request (name, arguments) and the collaborator's behaviour
    now,          \* datetime.now()
    last_reset,   \* rate_limit: nonlocal last_reset
    calls_made,   \* rate_limit: nonlocal calls_made
    pc,           \* per caller of call_tool: "idle" or "sleeping" in asyncio.sleep
    task,         \* per caller: the invocation suspended in the wrapper
    begins,       \* clock values at which func(*args) of the wrapper began
    entered,      \* invocations that entered the wrapper so far
    done,         \* the last invocation that completed, on either server
    outcomes      \* per server: the outcomes of the invocations completed so far

vars == <<input, now, last_reset, calls_made, pc, task, begins, entered, done, outcomes>>

Callers == 1..NumCallers
Inputs(requests) ==
    UNION {{[name |-> r.name, arguments |-> r.arguments, collab |-> b] :
                b \in Collabs(r.name)} : r \in requests}
NoTask == [entered |-> 0, wait_time |-> 0, until |-> 0]
NoneDone ==
    [server |-> "none",
     out |-> [how |-> "returned", remote |-> <<>>, exc |-> NoExc, value |-> None],
     admitted |-> FALSE, entered |-> 0, began |-> 0, suspensions |-> 0, wait_time |-> 0]
Servers == {"needle_mcp", "mcp_server_needle"}
NoOutcomes == [s \in Servers |-> {}]
\* the outcome of the completed invocation d joins those of its server
Record(d) == [outcomes EXCEPT ![d.server] = @ \cup {d.out}]

(* ------------- src/src/needle_mcp/server.py : rate_limit --------------- *)
\* Completed with the clock value of the call written into the payload
Completed_Stamped(enteredAt, suspensions, wait_time) ==
    LET o == call_tool(input.name, input.arguments, input.collab)
    IN [server |-> "needle_mcp",
        out |-> [o EXCEPT !.value.text = [payload |-> @, at |-> now]],
        admitted |-> TRUE, entered |-> enteredAt, began |-> now,
        suspensions |-> suspensions, wait_time |-> wait_time]

\* the record of an invocation of call_tool that ran func(*args, **kwargs)
Completed(enteredAt, suspensions, wait_time) ==
    [server |-> "needle_mcp",
     out |-> call_tool(input.name, input.arguments, input.collab),
     admitted |-> TRUE, entered |-> enteredAt, began |-> now,
     suspensions |-> suspensions, wait_time |-> wait_time]

\* Enter with the sign of the elapsed time slipped in wait_time
Enter_ElapsedAdded(c, maxInv, maxT) ==
    /\ pc[c] = "idle"
    /\ entered < maxInv
    /\ LET expired == (now - last_reset) > period
           cm == IF expired THEN 0 ELSE calls_made
           lr == IF expired THEN now ELSE last_reset
           wait_time == period + (now - lr)
       IN /\ entered' = entered + 1
          /\ last_reset' = lr
          /\ IF cm >= calls /\ wait_time > 0
             THEN /\ now + wait_time <= maxT
                  /\ calls_made' = cm
                  /\ pc' = [pc EXCEPT ![c] = "sleeping"]
                  /\ task' = [task EXCEPT ![c] =
                                 [entered |-> now, wait_time |-> wait_time,
                                  until |-> now + wait_time]]
                  /\ UNCHANGED <<begins, done, outcomes>>
             ELSE /\ calls_made' = cm + 1
                  /\ begins' = Append(begins, now)
                  /\ done' = Completed(now, 0, 0)
                  /\ outcomes' = Record(done')
                  /\ UNCHANGED <<pc, task>>
    /\ UNCHANGED <<input, now>>

\* Enter that suspends when wait_time is zero as well
Enter_SleepOnZero(c, maxInv, maxT) ==
    /\ pc[c] = "idle"
    /\ entered < maxInv
    /\ LET expired == (now - last_reset) > period
           cm == IF expired THEN 0 ELSE calls_made
           lr == IF expired THEN now ELSE last_reset
           wait_time == period - (now - lr)
       IN /\ entered' = entered + 1
          /\ last_reset' = lr
          /\ IF cm >= calls /\ wait_time >= 0
             THEN /\ now + wait_time <= maxT
                  /\ calls_made' = cm
                  /\ pc' = [pc EXCEPT ![c] = "sleeping"]
                  /\ task' = [task EXCEPT ![c] =
                                 [entered |-> now, wait_time |-> wait_time,
                                  until |-> now + wait_time]]
                  /\ UNCHANGED <<begins, done, outcomes>>
             ELSE /\ calls_made' = cm + 1
                  /\ begins' = Append(begins, now)
                  /\ done' = Completed(now, 0, 0)
                  /\ outcomes' = Record(done')
                  /\ UNCHANGED <<pc, task>>
    /\ UNCHANGED <<input, now>>

\* Enter that counts an invocation only when func returned no error
Enter_RollBackOnFailure(c, maxInv, maxT) ==
    /\ pc[c] = "idle"
    /\ entered < maxInv
    /\ LET expired == (now - last_reset) > period
           cm == IF expired THEN 0 ELSE calls_made
           lr == IF expired THEN now ELSE last_reset
           wait_time == period - (now - lr)
       IN /\ entered' = entered + 1
          /\ last_reset' = lr
          /\ IF cm >= calls /\ wait_time > 0
             THEN /\ now + wait_time <= maxT
                  /\ calls_made' = cm
                  /\ pc' = [pc EXCEPT ![c] = "sleeping"]
                  /\ task' = [task EXCEPT ![c] =
                                 [entered |-> now, wait_time |-> wait_time,
                                  until |-> now + wait_time]]
                  /\ UNCHANGED <<begins, done, outcomes>>
             ELSE /\ done' = Completed(now, 0, 0)
                  /\ calls_made' = IF done'.out.value.type = "error" THEN cm ELSE cm + 1
                  /\ begins' = Append(begins, now)
                  /\ outcomes' = Record(done')
                  /\ UNCHANGED <<pc, task>>
    /\ UNCHANGED <<input, now>>

\* wrapper, from its entry to the first await: the reset of an expired
\* window, then either asyncio.sleep(wait_time) or calls_made += 1 and func
Enter(c, maxInv, maxT) ==
    /\ pc[c] = "idle"
    /\ entered < maxInv
    /\ LET expired == (now - last_reset) > period
           cm == IF expired THEN 0 ELSE calls_made
           lr == IF expired THEN now ELSE last_reset
           wait_time == period - (now - lr)
       IN /\ entered' = entered + 1
          /\ last_reset' = lr
          /\ IF cm >= calls /\ wait_time > 0
             THEN /\ now + wait_time <= maxT
                  /\ calls_made' = cm
                  /\ pc' = [pc EXCEPT ![c] = "sleeping"]
                  /\ task' = [task EXCEPT ![c] =
                                 [entered |-> now, wait_time |-> wait_time,
                                  until |-> now + wait_time]]
                  /\ UNCHANGED <<begins, done, outcomes>>
             ELSE /\ calls_made' = cm + 1
                  /\ begins' = Append(begins, now)
                  /\ done' = Completed(now, 0, 0)
                  /\ outcomes' = Record(done')
                  /\ UNCHANGED <<pc, task>>
    /\ UNCHANGED <<input, now>>

\* wrapper, after asyncio.sleep returns: last_reset = datetime.now(),
\* calls_made = 0, calls_made += 1, func
Wake(c) ==
    /\ pc[c] = "sleeping"
    /\ now >= task[c].until
    /\ last_reset' = now
    /\ calls_made' = 0 + 1
    /\ begins' = Append(begins, now)
    /\ done' = Completed(task[c].entered, 1, task[c].wait_time)
    /\ outcomes' = Record(done')
    /\ pc' = [pc EXCEPT ![c] = "idle"]
    /\ task' = [task EXCEPT ![c] = NoTask]
    /\ UNCHANGED <<input, now, entered>>

(* -------- src/mcp_server_needle/server.py : invoke_tool ---------------- *)
\* an invocation of NeedleMCPServer.invoke_tool; it has no decorator and
\* reads no limiter state
Invoke ==
    /\ done' = [server |-> "mcp_server_needle",
                out |-> invoke_tool(input.name, input.arguments, input.collab),
                admitted |-> FALSE, entered |-> now, began |-> now,
                suspensions |-> 0, wait_time |-> 0]
    /\ outcomes' = Record(done')
    /\ UNCHANGED <<input, now, last_reset, calls_made, pc, task, begins, entered>>

(* ------------------------------ the clock ------------------------------ *)
\* begins keeps the clock values of the last `keep` ticks
Tick(maxT, keep) ==
    /\ now < maxT
    /\ now' = now + 1
    /\ begins' = SelectSeq(begins, LAMBDA t : t > now + 1 - keep)
    /\ UNCHANGED <<input, last_reset, calls_made, pc, task, entered, done, outcomes>>

(* --------------------------- specifications ---------------------------- *)
\* the limiter under concurrent callers: the module is imported at clock 0
\* (last_reset = datetime.now(), calls_made = 0)
LimiterRequests ==
    {[name |-> "list_collections", arguments |-> Payload(Absent, Absent, Absent, Absent)],
     [name |-> "unknown_tool", arguments |-> Payload(Absent, Absent, Absent, Absent)]}

Fresh ==
    /\ now = 0
    /\ last_reset = 0
    /\ calls_made = 0
    /\ pc = [c \in Callers |-> "idle"]
    /\ task = [c \in Callers |-> NoTask]
    /\ begins = <<>>
    /\ entered = 0
    /\ done = NoneDone
    /\ outcomes = NoOutcomes

Init ==
    /\ input \in {i \in Inputs(LimiterRequests) : i.collab.wellformed}
    /\ Fresh

CallTool == \E c \in Callers : Enter(c, MaxInvocations, MaxTime)
Resume == \E c \in Callers : Wake(c)
InvokeTool == Invoke
Clock == Tick(MaxTime, period)

Next == CallTool \/ Resume \/ InvokeTool \/ Clock
Spec == Init /\ [][Next]_vars

(* ---- the dispatcher under every request and collaborator behaviour ---- *)
\* invocations and clock values of DispatchSpec beyond its initial state
DispatchInvocations == 3
DispatchMaxTime == 3

\* the limiter one call short of its limit: calls - 1 invocations ran at
\* clock 0, so the next but one is suspended
DispatchInit ==
    /\ input \in Inputs(Requests)
    /\ now = 0
    /\ last_reset = 0
    /\ calls_made = calls - 1
    /\ pc = [c \in Callers |-> "idle"]
    /\ task = [c \in Callers |-> NoTask]
    /\ begins = [i \in 1..(calls - 1) |-> 0]
    /\ entered = calls - 1
    /\ done = Completed(0, 0, 0)
    /\ outcomes = [NoOutcomes EXCEPT !["needle_mcp"] = {Completed(0, 0, 0).out}]

DispatchCallTool == Enter(1, calls - 1 + DispatchInvocations, DispatchMaxTime)
DispatchResume == Wake(1)
DispatchInvokeTool == Invoke
DispatchClock == Tick(DispatchMaxTime, period)

DispatchNext == DispatchCallTool \/ DispatchResume \/ DispatchInvokeTool \/ DispatchClock
DispatchSpec == DispatchInit /\ [][DispatchNext]_vars

(* ======================= the result envelope =========================== *)
\* how an outcome reads as a ResultEnvelope: a returned TextContent of type
\* "error" is a Failure, whose kind is told by the prefix of its text and
\* whose message is the text after the prefix; any other returned value is
\* a Success whose payload is the JSON document (call_tool) or the value
\* itself (invoke_tool)
Ran == done.server # "none"
IsEnvelope == done.out.how = "returned"
IsFailure == IsEnvelope /\ done.out.value.type = "error"
IsSuccess == IsEnvelope /\ done.out.value.type # "error"
IsRemoteApiError == IsFailure /\ done.out.value.text[1] = "Needle API error: "
IsValidationError ==
    /\ IsFailure
    /\ done.out.value.text[1] = "Error executing "
    /\ done.out.value.text[2] = input.name
FailureMessage ==
    IF done.out.value.text[1] = "Needle API error: " THEN Tail(done.out.value.text)
    ELSE SubSeq(done.out.value.text, 4, Len(done.out.value.text))
SuccessPayload ==
    IF done.out.value.type = "text" THEN done.out.value.text ELSE done.out.value
RemoteCalls == Len(done.out.remote)

MissingRequiredKey ==
    /\ IsDict(input.arguments)
    /\ \E i \in 1..Len(required(input.name)) :
           ~HasKey(input.arguments.pairs, required(input.name)[i])

(* ============================ C1 ======================================= *)
\* C1: an invocation of any of the seven tools whose payload lacks a
\* required key returns a Failure of kind ValidationError and calls the
\* remote collaborator zero times.
C1_MissingKeyIsValidationFailure ==
    (Ran /\ input.name \in ToolNames /\ MissingRequiredKey)
        => (IsValidationError /\ RemoteCalls = 0)

\* what holds on both servers: the collaborator is not called
C1_MissingKeyNoRemoteCall ==
    (Ran /\ input.name \in ToolNames /\ MissingRequiredKey) => RemoteCalls = 0
\* what holds of call_tool
C1_call_tool ==
    (done.server = "needle_mcp" /\ input.name \in ToolNames /\ MissingRequiredKey)
        => (IsValidationError /\ RemoteCalls = 0)

(* ============================ C2 ======================================= *)
\* C2: every invocation, whatever the name, the payload and the behaviour
\* of the collaborator, completes by returning an envelope; nothing is
\* raised past the entry point.
C2_NeverRaises == Ran => IsEnvelope

C2_call_tool == done.server = "needle_mcp" => IsEnvelope

(* ============================ C4 ======================================= *)
\* the urls of the inputs that have both a scheme and a network location
UrlsWithSchemeAndNetloc == {Str("https://example.com/doc.pdf")}
AddFileArgs == IsDict(input.arguments) /\ HasAll(input.arguments, {"collection_id", "name", "url"})
AddFileInvalid ==
    \/ GetKey(input.arguments.pairs, "url") \notin UrlsWithSchemeAndNetloc
    \/ GetKey(input.arguments.pairs, "collection_id").type # "str"
    \/ GetKey(input.arguments.pairs, "collection_id").s = ""
AddFileCall ==
    [op |-> "collections.files.add",
     args |-> << <<"collection_id", GetKey(input.arguments.pairs, "collection_id")>>,
                 <<"files", List(<<Object("FileToAdd",
                       << <<"name", GetKey(input.arguments.pairs, "name")>>,
                          <<"url", GetKey(input.arguments.pairs, "url")>> >>)>>)>> >>]

\* C4: add_file with its three keys present: a url without scheme and
\* network location, or a collection_id that is not a non-empty string,
\* gives Failure{ValidationError} and no add call; otherwise add is called
\* exactly once with the given collection_id and one file of the given
\* name and url.
C4_AddFileValidated ==
    (Ran /\ input.name = "add_file" /\ AddFileArgs)
        => IF AddFileInvalid
           THEN IsValidationError /\ RemoteCalls = 0
           ELSE done.out.remote = <<AddFileCall>>

C4_call_tool ==
    (done.server = "needle_mcp" /\ input.name = "add_file" /\ AddFileArgs)
        => IF AddFileInvalid
           THEN IsValidationError /\ RemoteCalls = 0
           ELSE done.out.remote = <<AddFileCall>>

(* ============================ C5 ======================================= *)
\* C5: a name outside the seven tools gives Failure{ValidationError} whose
\* message contains the name, and no remote operation is attempted.
C5_UnknownToolRejected ==
    (Ran /\ input.name \notin ToolNames)
        => /\ IsValidationError
           /\ \E i \in 1..Len(FailureMessage) : FailureMessage[i] = input.name
           /\ RemoteCalls = 0

C5_call_tool ==
    (done.server = "needle_mcp" /\ input.name \notin ToolNames)
        => /\ IsValidationError
           /\ \E i \in 1..Len(FailureMessage) : FailureMessage[i] = input.name
           /\ RemoteCalls = 0

(* ============================ C6 ======================================= *)
RemoteFault ==
    /\ RemoteCalls > 0
    /\ input.collab.does = "raise"
    /\ input.collab.error.exc = "NeedleError"

\* C6: when the remote operation raises a remote-API fault, the invocation
\* returns Failure{RemoteApiError} whose message is the fault's message,
\* and the fault is not raised to the caller.
C6_RemoteFaultPassedThrough ==
    (Ran /\ RemoteFault)
        => (IsRemoteApiError /\ FailureMessage = input.collab.error.msg)

C6_call_tool ==
    (done.server = "needle_mcp" /\ RemoteFault)
        => (IsRemoteApiError /\ FailureMessage = input.collab.error.msg)

(* ============================ C9 ======================================= *)
\* C9: every invocation, on every entry point, passes the limiter's
\* admission step before its validation and before any remote call.
C9_EveryEntryPointLimited == Ran => done.admitted

C9_call_tool == done.server = "needle_mcp" => done.admitted

(* ============================ C10 ====================================== *)
\* the fixed projections, written from the collaborator's result
Pick(o, keys) == Dict([i \in 1..Len(keys) |-> <<keys[i], GetAttr(o, keys[i])>>])
PickAll(l, keys) == List([i \in 1..Len(l.elems) |-> Pick(l.elems[i], keys)])
WithCreatedAt(o) ==
    Dict(<< <<"id", GetAttr(o, "id")>>, <<"name", GetAttr(o, "name")>>,
            <<"created_at", Str(GetAttr(o, "created_at").s)>> >>)
Projections(name, result) ==
    CASE name = "list_collections" ->
           {Dict(<< <<"collections", PickAll(result, <<"id", "name">>)>> >>),
            Dict(<< <<"collections",
                      List([i \in 1..Len(result.elems) |-> WithCreatedAt(result.elems[i])])>> >>)}
      [] name = "create_collection" ->
           {Dict(<< <<"collection_id", GetAttr(result, "id")>> >>)}
      [] name = "get_collection_details" ->
           {Dict(<< <<"collection", WithCreatedAt(result)>> >>)}
      [] name = "get_collection_stats" -> {Dict(<< <<"stats", result>> >>)}
      [] name = "list_collection_files" ->
           {Dict(<< <<"files", PickAll(result, <<"id", "name", "status">>)>> >>)}
      [] name = "add_file" ->
           {Dict(<< <<"file_id", GetAttr(result.elems[1], "id")>> >>)}
      [] name = "search" -> {PickAll(result, <<"content", "score">>)}
      [] OTHER -> {}

WellFormedResult ==
    /\ input.name \in ToolNames
    /\ RemoteCalls > 0
    /\ input.collab.wellformed
    /\ input.name = "add_file" => Len(input.collab.result.elems) > 0

\* C10: for every tool and every well-formed result of the collaborator
\* the invocation is a Success whose payload is exactly the tool's fixed
\* projection of that result.
C10_PayloadIsProjection ==
    (Ran /\ WellFormedResult)
        => (IsSuccess /\ SuccessPayload \in Projections(input.name, input.collab.result))

C10_call_tool ==
    (done.server = "needle_mcp" /\ WellFormedResult)
        => (IsSuccess /\ SuccessPayload \in Projections(input.name, input.collab.result))

(* ============================ C3 ======================================= *)
\* invocations of call_tool whose wrapped operation began within the last
\* period, the current clock value included
BegunInWindow == Cardinality({i \in 1..Len(begins) : begins[i] > now - period})

\* C3: over any sequence and interleaving of invocations, no more than
\* `calls` wrapped operations begin within any sliding interval of length
\* `period`.
C3_SlidingWindowBound == BegunInWindow <= calls

(* ============================ C7 ======================================= *)
\* one caller issues BurstSize invocations back to back: the clock moves
\* before the first of them (so the window may have started any time
\* before) and while the caller is suspended, until its sleep is over
BurstSize == calls + calls \div 2
BurstMaxTime == 3 * period

BurstInit ==
    /\ input \in {i \in Inputs(LimiterRequests) : i.collab.wellformed}
    /\ Fresh
BurstCallTool == Enter(1, BurstSize, BurstMaxTime)
BurstResume == Wake(1)
BurstClock ==
    /\ entered = 0 \/ (pc[1] = "sleeping" /\ now < task[1].until)
    /\ Tick(BurstMaxTime, BurstMaxTime + 1)
BurstNext == BurstCallTool \/ BurstResume \/ BurstClock
BurstSpec == BurstInit /\ [][BurstNext]_vars

\* C7: of 15 back-to-back invocations (calls = 10, period = 1.0 s),
\* whatever last_reset was before the first, the first 10 begin without
\* suspension, the other 5 begin only after the window has elapsed, and
\* the 15 take at least one period and less than two.
C7_BurstOfFifteen ==
    /\ \A i \in 1..Len(begins) :
           IF i <= calls THEN begins[i] = begins[1]
           ELSE begins[i] >= begins[1] + period
    /\ (Len(begins) \in 1..calls) => done.suspensions = 0
    /\ Len(begins) = BurstSize =>
           /\ begins[BurstSize] - begins[1] >= period
           /\ begins[BurstSize] - begins[1] < 2 * period

\* the same burst when the window starts with it (the first invocation
\* finds the previous window expired)
C7_BurstAfterExpiredWindow ==
    (Len(begins) >= 1 /\ begins[1] > period) => C7_BurstOfFifteen

(* ============================ C8 ======================================= *)
\* the limiter with its scheduling: the clock advances, and the event loop
\* resumes a caller whose asyncio.sleep is over
LiveCallers == 2
LiveMaxTime == 4
LiveInvocations == 12

LiveCallTool == \E c \in 1..LiveCallers : Enter(c, LiveInvocations, LiveMaxTime)
LiveResume == \E c \in 1..LiveCallers : Wake(c)
LiveClock == Tick(LiveMaxTime, period)
LiveNext == LiveCallTool \/ LiveResume \/ LiveClock
LiveInit ==
    /\ input \in {i \in Inputs(LimiterRequests) :
                     i.collab \in {Return(List(<<Collection("c1")>>), TRUE),
                                   Return(None, TRUE)}}
    /\ Fresh
LiveSpec ==
    /\ LiveInit
    /\ [][LiveNext]_vars
    /\ WF_vars(LiveClock)
    /\ \A c \in 1..LiveCallers : WF_vars(Wake(c))

\* a suspended invocation asked for one sleep of at most one period, and a
\* completed one was suspended at most once, for at most one period
BoundedSuspension ==
    /\ \A c \in Callers :
           pc[c] = "sleeping" =>
               /\ task[c].wait_time \in 1..period
               /\ task[c].until = task[c].entered + task[c].wait_time
    /\ done.server = "needle_mcp" =>
           /\ done.suspensions \in {0, 1}
           /\ done.wait_time \in 0..period
           /\ done.suspensions = 0 => done.began = done.entered
           /\ done.out = call_tool(input.name, input.arguments, input.collab)

\* C8: the limiter delays and never rejects: every invocation that enters
\* it begins the wrapped operation, after at most one suspension of at
\* most one period, and the limiter adds no error outcome of its own.
C8_DelaysNeverRejects ==
    /\ []BoundedSuspension
    /\ \A c \in 1..LiveCallers : (pc[c] = "sleeping") ~> (pc[c] = "idle")

\* an invocation that was suspended for a whole period and then ran
C8_Witness ==
    /\ done.server = "needle_mcp"
    /\ done.suspensions = 1
    /\ done.wait_time = period
    /\ done.began >= done.entered + period

(* ============================ C11 ====================================== *)
\* the payload of a returned outcome, as SuccessPayload reads it
PayloadOf(x) == IF x.value.type = "text" THEN x.value.text ELSE x.value

\* the collaborator holds a list of collections and keeps it: it answers
\* collections.list() with the same well-formed list at every call
UnchangedCollections ==
    /\ input.name = "list_collections"
    /\ input.collab.does = "return"
    /\ input.collab.wellformed

ValidationTable ==
    [list_collections |-> {}, create_collection |-> {"name"},
     get_collection_details |-> {"collection_id"},
     get_collection_stats |-> {"collection_id"},
     list_collection_files |-> {"collection_id"},
     add_file |-> {"collection_id", "name", "url"},
     search |-> {"collection_id", "query"}]

Declared(server) == IF server = "needle_mcp" THEN list_tools ELSE get_tools
DeclaredNames(server) == {Declared(server)[i].name : i \in 1..Len(Declared(server))}
DeclaredRequired(server, name) ==
    LET t == Declared(server)[CHOOSE i \in 1..Len(Declared(server)) :
                                  Declared(server)[i].name = name]
    IN {t.required[i] : i \in 1..Len(t.required)}

Dispatch(server, name, arguments, collab) ==
    IF server = "needle_mcp" THEN call_tool(name, arguments, collab)
    ELSE invoke_tool(name, arguments, collab)

\* a payload with a valid value under every key, and the same without k
Keys == {"collection_id", "name", "url", "query"}
FullPayload ==
    Payload(Str("c1"), Str("doc"), Str("https://example.com/doc.pdf"), Str("foo"))
Without(k) ==
    Dict(SelectSeq(FullPayload.pairs, LAMBDA kv : kv[1] # k))

\* the dispatcher routes the name to a remote operation
Routes(server, name) ==
    \A b \in Collabs(name) : Dispatch(server, name, FullPayload, b).remote # <<>>
\* the dispatcher rejects the absence of k: it ends the invocation without
\* a Success and without a remote call
Rejects(server, name, k) ==
    \A b \in Collabs(name) :
        LET o == Dispatch(server, name, Without(k), b)
        IN o.remote = <<>> /\ (o.how = "raised" \/ o.value.type = "error")
RejectedKeys(server, name) == {k \in Keys : Rejects(server, name, k)}

\* the keys the declaration of the invoked tool requires and the payload lacks
MissingDeclared ==
    {k \in DeclaredRequired(done.server, input.name) : ~HasKey(input.arguments.pairs, k)}

\* C12: each server declares exactly the seven tools of the validation
\* table; the declared names are the names its dispatcher routes to a
\* remote operation, and the declared required keys of a tool are the keys
\* whose absence the dispatcher rejects, for the tool just invoked as well.
C12_DeclarationMatchesDispatcher ==
    Ran =>
        /\ Len(Declared(done.server)) = 7
        /\ DeclaredNames(done.server) = DOMAIN ValidationTable
        /\ (input.name \in DeclaredNames(done.server)) <=> Routes(done.server, input.name)
        /\ input.name \in DeclaredNames(done.server) =>
               /\ DeclaredRequired(done.server, input.name) = ValidationTable[input.name]
               /\ DeclaredRequired(done.server, input.name)
                      = RejectedKeys(done.server, input.name)
               /\ (IsDict(input.arguments) /\ MissingDeclared # {}) =>
                      (RemoteCalls = 0 /\ ~IsSuccess)

\* search was invoked on invoke_tool without its query and was rejected
C12_Witness ==
    /\ done.server = "mcp_server_needle"
    /\ input.name = "search"
    /\ IsDict(input.arguments)
    /\ MissingDeclared = {"query"}
    /\ RemoteCalls = 0
    /\ "query" \in RejectedKeys("mcp_server_needle", "search")

\* the same on call_tool
C12_WitnessCallTool ==
    /\ done.server = "needle_mcp"
    /\ input.name = "add_file"
    /\ IsDict(input.arguments)
    /\ MissingDeclared = {"url"}
    /\ IsFailure

(* ============================ C13 ====================================== *)
\* C13: in every reachable state of the limiter, after invocations at any
\* arrival times, an arrival exactly `period` after last_reset included,
\* calls_made is at most `calls`.
C13_CounterBounded == calls_made <= calls

\* what the wrapper keeps: the counter passes `calls` only by arrivals at
\* the clock value last_reset + period, where the window is not yet reset
\* and wait_time is zero, so it is above `calls` only from that value on
C13_OverLimitOnlyFromBoundary == calls_made > calls => now >= last_reset + period

(* ============================ C14 ====================================== *)
\* caller c is inside the wrapper across the step: it read calls_made and
\* last_reset for its admission check and has not yet written its
\* increment (it is suspended in asyncio.sleep before and after the step)
InsideWrapper(c) == pc[c] = "sleeping" /\ pc'[c] = "sleeping"

\* C14: the limiter's critical section is mutually exclusive: while one
\* invocation is between its admission check and its increment, its
\* suspension included, no other invocation enters the wrapper or resumes
\* in it, and calls_made and last_reset are not written.
C14_CriticalSectionExclusive ==
    [][\A c \in Callers :
          InsideWrapper(c) =>
              /\ entered' = entered
              /\ pc' = pc
              /\ calls_made' = calls_made
              /\ last_reset' = last_reset]_vars

\* what the wrapper keeps: up to its first await an invocation runs alone,
\* so a step is the work of one caller
C14_OneCallerPerStep ==
    [][Cardinality({c \in Callers : pc'[c] # pc[c]}) <= 1 /\ entered' <= entered + 1]_vars

(* ============================ C15 ====================================== *)
\* the request i fails by what the caller sent: an unknown name, a payload
\* without a required key, or add_file with an empty or non-string
\* collection_id or a url without scheme and network location
CallerInputFault(i) ==
    \/ i.name \notin ToolNames
    \/ /\ IsDict(i.arguments)
       /\ \E k \in ValidationTable[i.name] : ~HasKey(i.arguments.pairs, k)
    \/ /\ i.name = "add_file"
       /\ IsDict(i.arguments)
       /\ HasAll(i.arguments, {"collection_id", "name", "url"})
       /\ \/ GetKey(i.arguments.pairs, "url") \notin UrlsWithSchemeAndNetloc
          \/ GetKey(i.arguments.pairs, "collection_id").type # "str"
          \/ GetKey(i.arguments.pairs, "collection_id").s = ""

\* the requests with a valid payload whose remote call answers with a
\* value of the wrong shape, or with an empty list for add_file (stats are
\* opaque: no value has the wrong shape for get_collection_stats)
ShapeFaults ==
    {j \in UNION {{[name |-> n, arguments |-> FullPayload, collab |-> b] :
                       b \in Collabs(n)} : n \in ToolNames \ {"get_collection_stats"}} :
        /\ j.collab.does = "return"
        /\ \/ ~j.collab.wellformed
           \/ j.name = "add_file" /\ j.collab.result = List(<<>>)}

\* the kind an outcome shows to the caller: the type of the returned
\* TextContent and the fixed prefix of its text; an exception is no envelope
Kind(o) ==
    IF o.how = "raised" THEN "raised"
    ELSE IF o.value.type # "error" THEN "Success"
    ELSE o.value.text[1]

\* C15: a failure caused by the caller's input is returned as an envelope
\* whose kind differs from the kind returned for a non-remote fault that
\* the caller did not cause (a collaborator response of the wrong shape).
C15_ValidationKindDistinct ==
    (Ran /\ CallerInputFault(input)) =>
        /\ IsFailure
        /\ \A j \in ShapeFaults :
               LET o == Dispatch(done.server, j.name, j.arguments, j.collab)
               IN Kind(o) # Kind(done.out)

\* what call_tool does: both causes reach `except Exception` and return the
\* same kind, which differs only from the kind of a NeedleError
C15_call_tool_OneGenericKind ==
    (done.server = "needle_mcp" /\ CallerInputFault(input)) =>
        /\ Kind(done.out) = "Error executing "
        /\ \A j \in ShapeFaults :
               Kind(call_tool(j.name, j.arguments, j.collab)) = "Error executing "

(* ============================ C16 ====================================== *)
\* a step in which an invocation enters the wrapper
Enters == entered' = entered + 1
\* the entering invocation runs func in the same step, without asyncio.sleep
ProceedsUnsuspended ==
    /\ pc' = pc
    /\ task' = task
    /\ done'.server = "needle_mcp"
    /\ done'.suspensions = 0
    /\ done'.wait_time = 0
    /\ done'.entered = now
    /\ done'.began = now
    /\ begins' = Append(begins, now)

\* C16: when an invocation finds calls_made >= calls and
\* period - (now - last_reset) is zero or negative, it goes on to the
\* wrapped operation without suspension.
C16_NoSuspensionOnNonPositiveWait ==
    [][(Enters /\ calls_made >= calls /\ period - (now - last_reset) <= 0)
          => ProceedsUnsuspended]_vars

\* an invocation arrived exactly `period` after last_reset with the limit
\* reached, and ran at once
C16_Witness ==
    /\ calls_made = calls + 1
    /\ now = last_reset + period
    /\ done.server = "needle_mcp"
    /\ done.suspensions = 0
    /\ done.began = now

\* an invocation arrived more than `period` after last_reset with the
\* limit reached, and ran at once in a new window
C16_WitnessExpired ==
    /\ entered = calls + 1
    /\ calls_made = 1
    /\ last_reset = now
    /\ now > period
    /\ done.server = "needle_mcp"
    /\ done.suspensions = 0
    /\ done.began = now
    /\ Cardinality({i \in 1..Len(begins) : begins[i] = now}) = 1

(* ============================ C17 ====================================== *)
\* add_file with valid arguments whose remote add returns no file
EmptyAddResult ==
    /\ input.name = "add_file"
    /\ AddFileArgs
    /\ ~AddFileInvalid
    /\ input.collab.does = "return"
    /\ input.collab.result = List(<<>>)

\* C17: add_file with valid arguments, when the remote add returns an
\* empty list of files, returns a Failure of the unexpected-error kind:
\* not a Success and not an exception raised to the caller.
C17_EmptyAddResultIsFailure ==
    (Ran /\ EmptyAddResult) =>
        /\ IsFailure
        /\ Kind(done.out) = "Error executing "
        /\ RemoteCalls = 1

\* what holds of call_tool: files[0] raises IndexError, `except Exception`
\* returns it as an error TextContent
C17_call_tool ==
    (done.server = "needle_mcp" /\ EmptyAddResult) =>
        /\ IsFailure
        /\ done.out.value.text =
               <<"Error executing ", "add_file", ": ", "list index out of range">>
        /\ done.out.remote = <<AddFileCall>>

(* ============================ C18 ====================================== *)
\* the request passes the validation of the validation table: a known
\* tool, a mapping that holds its required keys (list_collections takes
\* no arguments), and for add_file a valid collection_id and url
ValidationPasses ==
    /\ ~CallerInputFault(input)
    /\ IsDict(input.arguments) \/ input.name = "list_collections"

\* C18: one invocation calls the remote collaborator exactly once when
\* validation passes and not at all otherwise, whatever the call's
\* outcome: there is no retry, not even after a remote-API fault of
\* create_collection or add_file.
C18_NoRetry ==
    Ran => RemoteCalls = (IF ValidationPasses THEN 1 ELSE 0)

\* what holds on both servers: never more than one remote call
C18_AtMostOnce == Ran => RemoteCalls <= 1
\* what holds of call_tool
C18_call_tool ==
    done.server = "needle_mcp" => RemoteCalls = (IF ValidationPasses THEN 1 ELSE 0)
\* a remote-API fault of a non-idempotent operation was not retried
C18_FaultNotRetried ==
    (Ran /\ RemoteFault /\ input.name \in {"create_collection", "add_file"})
        => RemoteCalls = 1

(* ============================ C19 ====================================== *)
\* a step in which a suspended invocation resumes after asyncio.sleep
Resumes == \E c \in Callers : pc[c] = "sleeping" /\ pc'[c] = "idle"
\* the entering invocation suspends in asyncio.sleep
Suspends == Enters /\ \E c \in Callers : pc[c] = "idle" /\ pc'[c] = "sleeping"
\* calls_made and last_reset as the entering invocation finds them after
\* the reset of an expired window
CounterAtEntry == IF (now - last_reset) > period THEN 0 ELSE calls_made
WindowAtEntry == IF (now - last_reset) > period THEN now ELSE last_reset

\* C19: every invocation of the rate-limited call_tool adds exactly one to
\* calls_made when it goes on to func, whatever func then does: an
\* invocation that fails validation or names an unknown tool, and makes no
\* remote call, takes its slot all the same, and no outcome of func winds
\* calls_made or last_reset back; nothing but the wrapper writes them.
C19_EveryInvocationCounts ==
    [][/\ (Enters /\ ~Suspends) =>
              /\ calls_made' = CounterAtEntry + 1
              /\ last_reset' = WindowAtEntry
              /\ done'.out = call_tool(input.name, input.arguments, input.collab)
       /\ Suspends =>
              /\ calls_made' = CounterAtEntry
              /\ last_reset' = WindowAtEntry
       /\ Resumes =>
              /\ calls_made' = 1
              /\ last_reset' = now
              /\ done'.out = call_tool(input.name, input.arguments, input.collab)
       /\ (~Enters /\ ~Resumes) =>
              /\ calls_made' = calls_made
              /\ last_reset' = last_reset]_vars

\* an invocation that failed validation without any remote call took the
\* last slot of the window
C19_Witness ==
    /\ done.server = "needle_mcp"
    /\ CallerInputFault(input)
    /\ IsFailure
    /\ RemoteCalls = 0
    /\ done.suspensions = 0
    /\ calls_made = calls
    /\ last_reset = 0

\* invocations that all failed validation used up the window, and the
\* next one, failing too, was suspended for it
C19_WitnessSuspended ==
    /\ done.server = "needle_mcp"
    /\ CallerInputFault(input)
    /\ IsFailure
    /\ RemoteCalls = 0
    /\ done.suspensions = 1
    /\ calls_made = 1

====
